---- MODULE Spec2Model ----
(***************************************************************************)
(* Model of AAVEMonitorEnhanced (src/aave_monitor.py): the RPC provider    *)
(* pool with failover (_get_working_provider), the position fetch with its *)
(* retry budget (get_position_data), the Telegram message handling         *)
(* (send_or_update_message) and the monitoring loop (monitor_loop).        *)
(*                                                                         *)
(* Python indices are kept 0-based for the provider list; the address list *)
(* and the logs are TLA+ sequences (1-based).                              *)
(***************************************************************************)
EXTENDS Integers, Sequences, FiniteSets, TLC

\* ------------------------------------------------------------ bounds
\* Largest provider list built by _init_web3_providers (the real tables hold 5 or 6).
MaxProviders == 2
\* Largest configured address list.
MaxAddresses == 2
\* Number of distinct message ids the Telegram side hands out before reusing one.
MaxHandle == 2
\* Largest collateral, debt and liquidation threshold handed to
\* _calculate_liquidation_price (whole units).
MaxAmount == 2
\* Health factors handed to it: the fractions num/den with |num| <= MaxHFNum
\* and 1 <= den <= MaxHFDen.
MaxHFNum == 8
MaxHFDen == 5

\* --------------------------------------------------- program constants
\* provider['failed_count'] < 3
FailLimit == 3
\* max_attempts = len(self.w3_providers) * 2
ScanFactor == 2
\* self.message_id = None
None == 0
\* "no provider": value of the history fields that name a provider when there is none
NoProvider == -1

VARIABLES
    w3_providers,       \* self.w3_providers: 0..n-1 -> [url, failed_count]
    current_rpc_index,  \* self.current_rpc_index
    addresses,          \* self.addresses (configuration, fixed after __init__)
    message_id,         \* self.message_id (None or the remembered message id)
    pc,                 \* position of monitor_loop: "poll", "backoff", "report", "idle", "stopped"
    address_i,          \* position of `for address in self.addresses` (1-based)
    retry,              \* `retry` of get_position_data's for loop
    positions,          \* `positions` of monitor_loop: the cycle's aggregate
    stop_signal,        \* an external stop (KeyboardInterrupt / cancellation) has arrived
    \* ---- history (observations, never read by the program)
    streak,             \* per provider: failed calls in a row since its last success or a forced reset
    acq,                \* what the last _get_working_provider call of the polling phase saw and returned
    prev_failed,        \* the immediately preceding attempt, if it failed: its provider, and whether the cursor pointed at it
    calls,              \* remote-call attempts made by the running (or the last finished) get_position_data
    fetch_log,          \* this cycle's finished get_position_data calls
    sink_calls,         \* this cycle's calls to the Telegram bot
    handle_before,      \* self.message_id when this cycle's send_or_update_message was entered
    run,                \* the running (or last finished) get_position_data, while every provider was usable in it
    waits,              \* backoff sleeps made by the running (or the last finished) get_position_data
    \* ---- a call of _calculate_liquidation_price taken on its own
    risk_in,            \* its arguments
    risk_out,           \* <<>> before it is called, then <<what it returned>>
    \* ---- get_position_data run as concurrent asyncio tasks on the one monitor
    tasks               \* per task (one per address): its position, its `retry`, and history

\* The arguments and the result of _calculate_liquidation_price.
calc_vars == <<risk_in, risk_out>>

vars == <<w3_providers, current_rpc_index, addresses, message_id, pc, address_i,
          retry, positions, stop_signal, streak, acq, prev_failed,
          calls, fetch_log, sink_calls, handle_before, run, waits, calc_vars,
          tasks>>

\* ------------------------------------------------------------ the pool

PoolSize(provs) == Cardinality(DOMAIN provs)

\* _init_web3_providers: one entry per RPC url, failed_count 0.
InitProviders(n) == [i \in 0..(n - 1) |-> [url |-> i + 1, failed_count |-> 0]]

\* Outcomes of provider['w3'].is_connected(): True, False, or an exception.
ProbeOutcomes == {"up", "down", "raises"}

\* The network during one _get_working_provider call: its first `quiet` liveness
\* probes do not answer (each returns False or raises, as `how` says), the later
\* ones answer.  The scan stops at the first probe that answers, so this covers
\* every sequence of probe outcomes the scan can tell apart.
ProbeRuns(n) == [quiet : 0..(ScanFactor * n), how : {"down", "raises"}]

\* The outcome of the probe made after `probed` earlier probes of the same call.
is_connected(net, probed) == IF probed < net.quiet THEN net.how ELSE "up"

\* `try: if provider['w3'].is_connected(): return provider / except: pass`
ProbeAnswers(outcome) == outcome = "up"

\* Mutant of Selectable: the limit is off by one (`<= 3`).
C1_Mutant_Selectable(provider) == provider.failed_count <= FailLimit

\* Mutant of Selectable: no provider is ever skipped.
C20_Mutant_Selectable(provider) == TRUE

\* `if provider['failed_count'] < 3`
Selectable(provider) == provider.failed_count < FailLimit

\* Mutant of MaxAttempts: the scan goes a third time round the pool.
C6_Mutant_MaxAttempts(n) == n * ScanFactor + n

\* `max_attempts = len(self.w3_providers) * 2`
MaxAttempts(n) == n * ScanFactor

\* Mutant of ResetFailCounts: only the provider that is returned is reset.
C2_Mutant_ResetFailCounts(provs) == [provs EXCEPT ![0].failed_count = 0]

\* `for p in self.w3_providers: p['failed_count'] = 0`
ResetFailCounts(provs) == [i \in DOMAIN provs |-> [provs[i] EXCEPT !.failed_count = 0]]

\* `self.current_rpc_index = (self.current_rpc_index + 1) % len(self.w3_providers)`
NextIndex(index, n) == (index + 1) % n

\* The while loop of _get_working_provider and the forced reset after it.
\* Result: the provider returned (its index), the provider list and the cursor
\* on return, the number of candidates examined, the number of probes made,
\* whether a probe raised, and whether the forced reset ran.
RECURSIVE ScanProviders(_, _, _, _, _, _)
ScanProviders(provs, index, attempts, probed, raised, net) ==
    LET n == PoolSize(provs) IN
    IF attempts < MaxAttempts(n)
    THEN IF Selectable(provs[index])
         THEN LET outcome == is_connected(net, probed) IN
              IF ProbeAnswers(outcome)
              THEN [provider |-> index, provs |-> provs, index |-> index,
                    examined |-> attempts + 1, probed |-> probed + 1,
                    raised |-> raised, reset |-> FALSE]
              ELSE ScanProviders(provs, NextIndex(index, n), attempts + 1,
                                 probed + 1, raised \/ outcome = "raises", net)
         ELSE ScanProviders(provs, NextIndex(index, n), attempts + 1,
                            probed, raised, net)
    ELSE [provider |-> 0, provs |-> ResetFailCounts(provs), index |-> index,
          examined |-> attempts, probed |-> probed, raised |-> raised,
          reset |-> TRUE]

\* Mutant of GetWorkingProvider: the scan starts at the head of the list.
C15_Mutant_GetWorkingProvider(provs, index, net) ==
    ScanProviders(provs, 0, 0, 0, FALSE, net)

\* _get_working_provider
GetWorkingProvider(provs, index, net) == ScanProviders(provs, index, 0, 0, FALSE, net)

\* ------------------------------------------------------- the fetcher

\* Outcomes of one pass through the try block of get_position_data: the
\* contract call returned and was parsed ("ok"), or anything in it raised.
CallOutcomes == {"ok", "error"}

\* Optional[Dict]: None is the empty sequence, a value is a one-element sequence.
Absent == <<>>

\* The dict returned by get_position_data (the fields the loop and the report use).
Snapshot(address, provider) == <<[address |-> address, rpc_used |-> provider.url]>>

\* Mutant of MaxRetries: one retry too many.
C3_Mutant_MaxRetries(n) == n + 1

\* `max_retries = len(self.w3_providers)`
MaxRetries(n) == n

\* Mutant of AttemptsRemain: the sleep is made after the last attempt too.
C17_Mutant_AttemptsRemain(r, n) == r < MaxRetries(n)

\* `if retry < max_retries - 1: await asyncio.sleep(2); continue`
AttemptsRemain(r, n) == r < MaxRetries(n) - 1

\* Mutant of AdvanceAfterFailure: the cursor moves on by two.
C16_Mutant_AdvanceAfterFailure(index, n) == NextIndex(NextIndex(index, n), n)

\* Mutant of AdvanceAfterFailure: the cursor stays on the failed provider.
C5_Mutant_AdvanceAfterFailure(index, n) == index

\* `# Try next provider`: the cursor moves on after a failed call.
AdvanceAfterFailure(index, n) == NextIndex(index, n)

\* Mutant of ReportSuccess: a success clears every provider's count.
C18_Mutant_ReportSuccess(provs, p) == ResetFailCounts(provs)

\* `provider['failed_count'] = 0`
ReportSuccess(provs, p) == [provs EXCEPT ![p].failed_count = 0]

\* `provider['failed_count'] += 1`
ReportFailure(provs, p) == [provs EXCEPT ![p].failed_count = @ + 1]

\* Mutant of FoldPosition: the result replaces the aggregate instead of joining it.
C4_Mutant_FoldPosition(agg, pos_data) == pos_data

\* Mutant of FoldPosition: the result is put at the front of the aggregate.
C14_Mutant_FoldPosition(agg, pos_data) == pos_data \o agg

\* `if pos_data: positions.append(pos_data)`
FoldPosition(agg, pos_data) == IF pos_data # Absent THEN agg \o pos_data ELSE agg

\* History: whether some provider other than `e` is selectable and answers the
\* liveness probe when asked (more of them are selectable than probes go unanswered).
OthersReady(provs, e, net) ==
    Cardinality({f \in DOMAIN provs \ {e} : Selectable(provs[f])}) > net.quiet

\* History: the provider standing k places after the cursor, in cyclic order.
Candidate(provs, index, k) == (index + k) % PoolSize(provs)

\* History: the number of liveness probes made before the scan reaches place k:
\* one for each earlier place whose provider has failed_count < 3.
ProbedBefore(provs, index, k) ==
    Cardinality({j \in 0..(k - 1) : Selectable(provs[Candidate(provs, index, j)])})

\* History: the places of a scan (which goes round the pool twice) whose
\* provider has failed_count < 3 and answers the probe made there.
ReadyAt(provs, index, net) ==
    {k \in 0..(ScanFactor * PoolSize(provs) - 1) :
        /\ Selectable(provs[Candidate(provs, index, k)])
        /\ is_connected(net, ProbedBefore(provs, index, k)) = "up"}

\* History: the first provider, in cyclic order from the cursor, with
\* failed_count < 3 that answers its probe; NoProvider if there is none.
FirstReady(provs, index, net) ==
    LET ready == ReadyAt(provs, index, net) IN
    IF ready = {}
    THEN NoProvider
    ELSE Candidate(provs, index, CHOOSE k \in ready : \A j \in ready : k <= j)

\* History: what one _get_working_provider call saw on entry and returned.
Observe(a, net) ==
    [provider |-> a.provider,
     from |-> current_rpc_index,
     index |-> a.index,
     first_ready |-> FirstReady(w3_providers, current_rpc_index, net),
     kept_counts |-> a.provs = w3_providers,
     reset |-> a.reset,
     examined |-> a.examined,
     probe_raised |-> a.raised,
     blocked_before |-> streak[a.provider] >= FailLimit,
     all_failed_on_entry |-> \A e \in DOMAIN w3_providers :
                                 w3_providers[e].failed_count >= FailLimit,
     zeroed_on_return |-> \A e \in DOMAIN a.provs : a.provs[e].failed_count = 0,
     after_failure_of |-> prev_failed.provider,
     after_scan |-> prev_failed.at_cursor,
     other_ready |-> prev_failed.provider # NoProvider
                     /\ OthersReady(w3_providers, prev_failed.provider, net)]

NoAcq ==
    [provider |-> NoProvider, from |-> 0, index |-> 0, first_ready |-> NoProvider,
     kept_counts |-> FALSE, reset |-> FALSE, examined |-> 0, probe_raised |-> FALSE,
     blocked_before |-> FALSE, all_failed_on_entry |-> FALSE,
     zeroed_on_return |-> FALSE, after_failure_of |-> NoProvider,
     after_scan |-> FALSE, other_ready |-> FALSE]

\* History: no failed attempt immediately precedes.
NoFailure == [provider |-> NoProvider, at_cursor |-> FALSE]

\* History: not a get_position_data in which every provider was usable.
NoRun == [clear |-> FALSE, tried |-> <<>>, start |-> <<>>]

\* History of the running get_position_data, kept while every provider had
\* failed_count < 3 when it started and every liveness probe made in it has
\* answered: the failure counts at its start and the providers its attempts
\* used, in order.
RunNow(a, net) ==
    LET before == IF retry = 0
                  THEN [clear |-> \A e \in DOMAIN w3_providers :
                                      Selectable(w3_providers[e]),
                        tried |-> <<>>,
                        start |-> [e \in DOMAIN w3_providers |->
                                      w3_providers[e].failed_count]]
                  ELSE run
    IN IF before.clear /\ net.quiet = 0
       THEN [before EXCEPT !.tried = Append(@, a.provider)]
       ELSE NoRun

\* History: the backoff sleeps of the running get_position_data so far.
WaitsNow == IF retry = 0 THEN 0 ELSE waits

\* Mutant of AfterFetch: the loop over the addresses is left after the first one.
C8_Mutant_AfterFetch(i, m) == "report"

\* `for address in self.addresses:` after address number i of m has had its turn:
\* the next address, or the report once the list is done.
AfterFetch(i, m) == IF i + 1 > m THEN "report" ELSE "poll"

\* monitor_loop after `pos_data = await self.get_position_data(address)`:
\* fold the result into the aggregate and move to the next address.  The log
\* notes whether the fetch returned a snapshot, whether none of its calls failed
\* (`clean`) and, for an absent result, whether it came after exactly pool-size
\* attempts (`exhausted`).
EndFetch(pos_data, attempts) ==
    /\ positions' = FoldPosition(positions, pos_data)
    /\ fetch_log' = Append(fetch_log,
                           [address |-> addresses[address_i],
                            ok |-> pos_data # Absent,
                            clean |-> pos_data # Absent /\ attempts = 1,
                            exhausted |-> pos_data = Absent
                                          /\ attempts = PoolSize(w3_providers)])
    /\ address_i' = address_i + 1
    /\ retry' = 0
    /\ pc' = AfterFetch(address_i, Len(addresses))

\* History: the attempts made by the running get_position_data, this one included.
CallsNow == (IF retry = 0 THEN 0 ELSE calls) + 1

\* The try branch of get_position_data: the call returned.
CallSucceeded(a) ==
    /\ w3_providers' = ReportSuccess(a.provs, a.provider)
    /\ current_rpc_index' = a.index
    /\ streak' = [e \in DOMAIN streak |->
                    IF a.reset \/ e = a.provider THEN 0 ELSE streak[e]]
    /\ prev_failed' = NoFailure
    /\ EndFetch(Snapshot(addresses[address_i], a.provs[a.provider]), CallsNow)

\* The except branch of get_position_data: the call raised.
CallFailed(a) ==
    LET n == PoolSize(w3_providers) IN
    /\ w3_providers' = ReportFailure(a.provs, a.provider)
    /\ current_rpc_index' = AdvanceAfterFailure(a.index, n)
    /\ streak' = [e \in DOMAIN streak |->
                    (IF a.reset THEN 0 ELSE streak[e])
                    + (IF e = a.provider THEN 1 ELSE 0)]
    /\ prev_failed' = [provider |-> a.provider, at_cursor |-> a.index = a.provider]
    /\ IF AttemptsRemain(retry, n)
       THEN /\ pc' = "backoff"
            /\ UNCHANGED <<positions, fetch_log, address_i, retry>>
       ELSE EndFetch(Absent, CallsNow)

\* One iteration of get_position_data's for loop: _get_working_provider, the
\* contract call, and the bookkeeping of its outcome, up to the next await.
\* (`a` is what _get_working_provider returns for the probe outcomes drawn;
\* `seen` and `running` are the history noted for it.)
Attempt ==
    /\ pc = "poll"
    /\ \E net \in ProbeRuns(PoolSize(w3_providers)) :
       \E a \in {GetWorkingProvider(w3_providers, current_rpc_index, net)} :
       \E seen \in {Observe(a, net)}, running \in {RunNow(a, net)} :
       \E call \in CallOutcomes :
         /\ acq' = seen
         /\ run' = running
         /\ calls' = CallsNow
         /\ waits' = WaitsNow
         /\ IF call = "ok" THEN CallSucceeded(a) ELSE CallFailed(a)
    /\ UNCHANGED <<addresses, message_id, stop_signal, sink_calls,
                   handle_before, calc_vars, tasks>>

\* `await asyncio.sleep(2)` ... `continue`
Backoff ==
    /\ pc = "backoff"
    /\ pc' = "poll"
    /\ retry' = retry + 1
    /\ waits' = waits + 1
    /\ UNCHANGED <<w3_providers, current_rpc_index, addresses, message_id,
                   address_i, positions, stop_signal, streak, acq,
                   prev_failed, calls, fetch_log, sink_calls, handle_before,
                   run, calc_vars, tasks>>

\* ------------------------------------------------ concurrent fetches
\* get_position_data called for several addresses at once, as asyncio tasks on
\* the one monitor object (monitor_loop itself awaits them one at a time).  The
\* tasks share self.w3_providers and self.current_rpc_index; each has its own
\* `retry` and `provider`.  asyncio switches tasks only where one is suspended.

\* Mutant of Suspends: the contract call is awaited too.
C19_Mutant_Suspends(point) == TRUE

\* Where get_position_data can be suspended.  Of its two waiting points, the
\* contract call ("call": `.call()` on a synchronous HTTPProvider, not awaited)
\* and the backoff ("sleep": `await asyncio.sleep(2)`), only the second is an await.
Suspends(point) == point = "sleep"

\* A task about to call get_position_data: its position, its `retry`, the
\* `provider` it holds across a suspension inside an attempt (with `by_scan`:
\* the scan found it, not the forced reset) and, as history, how its last
\* attempt ended ("ok", "failed" with attempts left, "absent": budget exhausted).
TaskIdle ==
    [pc |-> "poll", retry |-> 0, provider |-> NoProvider, by_scan |-> FALSE,
     last |-> "none"]

\* History: the failures in a row after a _get_working_provider call.
StreakAfter(a) == IF a.reset THEN [e \in DOMAIN streak |-> 0] ELSE streak

\* Task t notes the outcome of its call on provider p: the try block's
\* `provider['failed_count'] = 0` and return, or the except branch.  `provs`,
\* `index` and `row` are the provider list, the cursor and the failures in a
\* row at that moment.
TaskReport(t, provs, index, row, p, call) ==
    LET n == PoolSize(provs)
        r == tasks[t].retry
        again == call # "ok" /\ AttemptsRemain(r, n)
    IN /\ w3_providers' = IF call = "ok" THEN ReportSuccess(provs, p)
                                         ELSE ReportFailure(provs, p)
       /\ current_rpc_index' = IF call = "ok" THEN index
                                              ELSE AdvanceAfterFailure(index, n)
       /\ streak' = [row EXCEPT ![p] = IF call = "ok" THEN 0 ELSE @ + 1]
       /\ tasks' = [tasks EXCEPT ![t] =
                       [pc |-> IF again THEN "backoff" ELSE "poll",
                        retry |-> IF again THEN r ELSE 0,
                        provider |-> NoProvider,
                        by_scan |-> FALSE,
                        last |-> IF call = "ok" THEN "ok"
                                 ELSE IF again THEN "failed" ELSE "absent"]]

\* Task t runs from the top of an iteration of the for loop to its next
\* suspension: _get_working_provider, the contract call and the bookkeeping of
\* its outcome.  (Were the call a suspension point, the task would stop at it,
\* holding `provider`, and go on from there when resumed.)
TaskAttempt(t) ==
    /\ tasks[t].pc \in {"poll", "calling"}
    /\ IF tasks[t].pc = "calling"
       THEN \E call \in CallOutcomes :
                TaskReport(t, w3_providers, current_rpc_index, streak,
                           tasks[t].provider, call)
       ELSE \E net \in ProbeRuns(PoolSize(w3_providers)) :
            \E a \in {GetWorkingProvider(w3_providers, current_rpc_index, net)} :
                IF Suspends("call")
                THEN /\ w3_providers' = a.provs
                     /\ current_rpc_index' = a.index
                     /\ streak' = StreakAfter(a)
                     /\ tasks' = [tasks EXCEPT ![t].pc = "calling",
                                               ![t].provider = a.provider,
                                               ![t].by_scan = ~a.reset]
                ELSE \E call \in CallOutcomes :
                         TaskReport(t, a.provs, a.index, StreakAfter(a),
                                    a.provider, call)
    /\ UNCHANGED <<addresses, message_id, pc, address_i, retry, positions,
                   stop_signal, acq, prev_failed, calls, fetch_log, sink_calls,
                   handle_before, run, waits, calc_vars>>

\* `await asyncio.sleep(2)` ... `continue` in task t
TaskBackoff(t) ==
    /\ tasks[t].pc = "backoff"
    /\ Suspends("sleep")
    /\ tasks' = [tasks EXCEPT ![t].pc = "poll", ![t].retry = @ + 1]
    /\ UNCHANGED <<w3_providers, current_rpc_index, streak, addresses,
                   message_id, pc, address_i, retry, positions, stop_signal,
                   acq, prev_failed, calls, fetch_log, sink_calls,
                   handle_before, run, waits, calc_vars>>

\* ------------------------------------------------- the Telegram message

\* Outcomes of bot.send_message: a Message, a TelegramError, or another exception.
SendOutcomes == {"ok", "error", "raise"}

\* Outcomes of bot.edit_message_text: done; a TelegramError saying "message is not
\* modified" ("unchanged"), "message to edit not found" ("not_found") or anything
\* else ("error"); or an exception that is no TelegramError ("raise").
UpdateOutcomes == {"ok", "unchanged", "not_found", "error", "raise"}

\* The id the Telegram side gives a new message: one that differs from `last`,
\* the id of the message the monitor held before (None if it held none).
NextHandle(last) == (last % MaxHandle) + 1

\* _format_message, reduced to what identifies the text: the positions it lists.
FormatMessage(agg) == [i \in 1..Len(agg) |-> agg[i].address]

\* Mutant of ErrorAction: "message to edit not found" is only logged.
C9_Mutant_ErrorAction(kind) == IF kind = "unchanged" THEN "ignore" ELSE "log"

\* Mutant of ErrorAction: "message is not modified" re-sends too.
C10_Mutant_ErrorAction(kind) ==
    IF kind = "unchanged" \/ kind = "not_found" THEN "resend" ELSE "log"

\* The except TelegramError branch of send_or_update_message.
ErrorAction(kind) ==
    IF kind = "unchanged" THEN "ignore"
    ELSE IF kind = "not_found" THEN "resend"
    ELSE "log"

\* send_or_update_message.  `outs` are the outcomes of the bot calls it makes, in
\* order, `last` the id of the message held before.  Result: self.message_id on
\* return, the bot calls made, and whether an exception left the method.
RECURSIVE SendOrUpdateMessage(_, _, _, _)
SendOrUpdateMessage(mid, text, outs, last) ==
    LET o == Head(outs)
        op == IF mid = None THEN "send" ELSE "update"
        call == [op |-> op, handle |-> mid, text |-> text, result |-> o]
        same == [message_id |-> mid, calls |-> <<call>>, raised |-> FALSE]
    IN IF o = "ok"
       THEN IF mid = None
            THEN LET h == NextHandle(last) IN
                 [message_id |-> h, calls |-> <<[call EXCEPT !.handle = h]>>,
                  raised |-> FALSE]
            ELSE same
       ELSE IF o = "raise"
       THEN [same EXCEPT !.raised = TRUE]
       ELSE IF ErrorAction(o) = "resend"
       THEN LET r == SendOrUpdateMessage(None, text, Tail(outs), mid) IN
            [r EXCEPT !.calls = <<call>> \o r.calls]
       ELSE same

\* The outcomes the bot calls of one send_or_update_message can have.
SinkRuns(mid) ==
    IF mid = None
    THEN {<<o>> : o \in SendOutcomes}
    ELSE {<<o1, o2>> : o1 \in UpdateOutcomes, o2 \in SendOutcomes}

\* ------------------------------------------- the liquidation price
\* _calculate_liquidation_price works on floats.  A float is modelled by the
\* fraction it stands for, [num, den] in lowest terms with den > 0, and the
\* arithmetic is exact: rounding is left out.

RECURSIVE Gcd(_, _)
Gcd(a, b) == IF b = 0 THEN a ELSE Gcd(b, a % b)

Abs(x) == IF x < 0 THEN 0 - x ELSE x

\* The float num/den (den # 0).
Float(num, den) ==
    LET g == Gcd(Abs(num), Abs(den))
        s == IF den < 0 THEN 0 - 1 ELSE 1
    IN [num |-> (s * num) \div g, den |-> (s * den) \div g]

\* `x - y` and `x * y` on floats
FloatSub(x, y) == Float(x.num * y.den - y.num * x.den, x.den * y.den)
FloatMul(x, y) == Float(x.num * y.num, x.den * y.den)

\* `x / y` on floats, where y is not zero
FloatDiv(x, y) == Float(x.num * y.den, x.den * y.num)

\* `x / y` raises ZeroDivisionError when y is zero
DivisionRaises(y) == y.num = 0

\* Mutant of Degenerate: absent only when all three are zero.
C12_Mutant_Degenerate(collateral_usd, debt_usd, liquidation_threshold) ==
    collateral_usd = 0 /\ debt_usd = 0 /\ liquidation_threshold = 0

\* `if collateral_usd == 0 or debt_usd == 0 or liquidation_threshold == 0`
Degenerate(collateral_usd, debt_usd, liquidation_threshold) ==
    collateral_usd = 0 \/ debt_usd = 0 \/ liquidation_threshold = 0

\* `... if health_factor > 0 else 0`
Divides(health_factor) == health_factor.num > 0

\* `liquidation_price_ratio = 1.0 / health_factor if health_factor > 0 else 0`
LiquidationPriceRatio(health_factor) ==
    IF Divides(health_factor)
    THEN FloatDiv(Float(1, 1), health_factor)
    ELSE Float(0, 1)

\* Mutant of PriceDropPct: the ratio itself is given as the drop.
C13_Mutant_PriceDropPct(ratio) == FloatMul(ratio, Float(100, 1))

\* `price_drop_pct = (1.0 - liquidation_price_ratio) * 100`
PriceDropPct(ratio) == FloatMul(FloatSub(Float(1, 1), ratio), Float(100, 1))

\* _calculate_liquidation_price.  Result: what it returns (None as Absent, the
\* dict as a one-element sequence) and whether its except branch was taken.
CalculateLiquidationPrice(collateral_usd, debt_usd, liquidation_threshold, health_factor) ==
    IF Degenerate(collateral_usd, debt_usd, liquidation_threshold)
    THEN [metrics |-> Absent, caught |-> FALSE]
    ELSE IF Divides(health_factor) /\ DivisionRaises(health_factor)
    THEN [metrics |-> Absent, caught |-> TRUE]
    ELSE LET liquidation_price_ratio == LiquidationPriceRatio(health_factor) IN
         [metrics |-> <<[liquidation_price_ratio |-> liquidation_price_ratio,
                         price_drop_to_liquidation_pct |->
                             PriceDropPct(liquidation_price_ratio),
                         current_price_normalized |-> Float(1, 1)]>>,
          caught |-> FALSE]

\* The health factors drawn.
HealthFactors ==
    {Float(num, den) : num \in (0 - MaxHFNum)..MaxHFNum, den \in 1..MaxHFDen}

\* The arguments drawn.
Arguments ==
    [collateral_usd : 0..MaxAmount, debt_usd : 0..MaxAmount,
     liquidation_threshold : 0..MaxAmount, health_factor : HealthFactors]

\* No call of _calculate_liquidation_price is looked at.
NoArguments ==
    [collateral_usd |-> 0, debt_usd |-> 0, liquidation_threshold |-> 0,
     health_factor |-> Float(0, 1)]

\* The call self._calculate_liquidation_price(...) with the arguments drawn.
Calculate ==
    /\ risk_out = <<>>
    /\ risk_out' = <<CalculateLiquidationPrice(risk_in.collateral_usd,
                                                risk_in.debt_usd,
                                                risk_in.liquidation_threshold,
                                                risk_in.health_factor)>>
    /\ UNCHANGED <<w3_providers, current_rpc_index, addresses, message_id, pc,
                   address_i, retry, positions, stop_signal, streak, acq,
                   prev_failed, calls, fetch_log, sink_calls, handle_before,
                   run, waits, risk_in, tasks>>

\* ------------------------------------------------------ the monitor loop

\* Mutant of OnLoopException: the handler leaves the loop, as the
\* KeyboardInterrupt one does.
C7_Mutant_OnLoopException == "stopped"

\* `except Exception as e: print(...); await asyncio.sleep(self.update_interval)`
OnLoopException == "idle"

\* Start of an iteration of `while True`: `positions = []`, then the for loop.
StartCycle ==
    /\ positions' = <<>>
    /\ address_i' = 1
    /\ retry' = 0
    /\ calls' = 0
    /\ waits' = 0
    /\ fetch_log' = <<>>
    /\ sink_calls' = <<>>
    /\ handle_before' = None
    /\ pc' = IF Len(addresses) = 0 THEN "report" ELSE "poll"

\* Mutant of HasPositions: the report is sent whatever the aggregate holds.
C11_Mutant_HasPositions(agg) == TRUE

\* `if positions:` (an empty list is falsy)
HasPositions(agg) == agg # <<>>

\* `if positions: ... await self.send_or_update_message(message)
\*  else: print(...)`, up to the sleep that follows.
Report ==
    /\ pc = "report"
    /\ IF HasPositions(positions)
       THEN \E outs \in SinkRuns(message_id) :
              LET r == SendOrUpdateMessage(message_id, FormatMessage(positions),
                                           outs, message_id) IN
              /\ message_id' = r.message_id
              /\ sink_calls' = r.calls
              /\ handle_before' = message_id
              /\ pc' = IF r.raised THEN OnLoopException ELSE "idle"
       ELSE /\ pc' = "idle"
            /\ UNCHANGED <<message_id, sink_calls, handle_before>>
    /\ acq' = NoAcq
    /\ run' = NoRun
    /\ UNCHANGED <<w3_providers, current_rpc_index, addresses, address_i, retry,
                   positions, stop_signal, streak, prev_failed, calls, waits,
                   fetch_log, calc_vars, tasks>>

\* `await asyncio.sleep(self.update_interval)` returns: the next iteration starts.
Sleep ==
    /\ pc = "idle"
    /\ StartCycle
    /\ UNCHANGED <<w3_providers, current_rpc_index, addresses, message_id,
                   stop_signal, streak, acq, prev_failed, run, calc_vars, tasks>>

\* An external stop signal (KeyboardInterrupt, or the cancellation asyncio
\* delivers at an await) ends the loop: monitor_loop returns, its locals are gone,
\* the object's fields stay as they are.
Stop ==
    /\ pc # "stopped"
    /\ pc' = "stopped"
    /\ stop_signal' = TRUE
    /\ positions' = <<>>
    /\ address_i' = 1
    /\ retry' = 0
    /\ calls' = 0
    /\ waits' = 0
    /\ fetch_log' = <<>>
    /\ sink_calls' = <<>>
    /\ handle_before' = None
    /\ acq' = NoAcq
    /\ run' = NoRun
    /\ UNCHANGED <<w3_providers, current_rpc_index, addresses, message_id,
                   streak, prev_failed, calc_vars,
                   tasks>>

\* The monitor after __init__ with n providers and m addresses, at the first
\* iteration of monitor_loop.
InitMonitor(n, m) ==
    /\ w3_providers = InitProviders(n)
    /\ current_rpc_index = 0
    /\ addresses = [i \in 1..m |-> i]
    /\ message_id = None
    /\ pc = IF m = 0 THEN "report" ELSE "poll"
    /\ address_i = 1
    /\ retry = 0
    /\ positions = <<>>
    /\ stop_signal = FALSE
    /\ streak = [i \in 0..(n - 1) |-> 0]
    /\ acq = NoAcq
    /\ prev_failed = NoFailure
    /\ calls = 0
    /\ fetch_log = <<>>
    /\ sink_calls = <<>>
    /\ handle_before = None
    /\ run = NoRun
    /\ waits = 0

\* The state after __init__, at the first iteration of monitor_loop.
Init ==
    \E n \in 1..MaxProviders, m \in 0..MaxAddresses :
        /\ InitMonitor(n, m)
        /\ risk_in = NoArguments
        /\ risk_out = <<>>
        /\ tasks = <<>>

Next == Attempt \/ Backoff \/ Report \/ Sleep \/ Stop

Spec == Init /\ [][Next]_vars

\* Every remote call returns or times out and every sleep ends, so each step of
\* the loop is eventually taken; nothing forces a stop signal to arrive.
FairSpec ==
    /\ Spec
    /\ WF_vars(Attempt) /\ WF_vars(Backoff) /\ WF_vars(Report) /\ WF_vars(Sleep)

\* _calculate_liquidation_price called on a monitor object, with any arguments.
\* It reads and writes no field of the object.
RiskInit ==
    /\ InitMonitor(1, 0)
    /\ risk_in \in Arguments
    /\ risk_out = <<>>
    /\ tasks = <<>>

RiskNext == Calculate

RiskSpec == RiskInit /\ [][RiskNext]_vars

\* The monitor after __init__, with one task per configured address calling
\* get_position_data, again and again.
ConcInit ==
    \E n \in 1..MaxProviders, m \in 1..MaxAddresses :
        /\ InitMonitor(n, m)
        /\ risk_in = NoArguments
        /\ risk_out = <<>>
        /\ tasks = [t \in 1..m |-> TaskIdle]

\* Some task runs up to its next suspension.
SomeAttempt == \E t \in DOMAIN tasks : TaskAttempt(t)

\* The backoff sleep of some task ends.
SomeBackoff == \E t \in DOMAIN tasks : TaskBackoff(t)

ConcNext == SomeAttempt \/ SomeBackoff

ConcSpec == ConcInit /\ [][ConcNext]_vars

\* =================================================================
\* Properties
\* =================================================================

\* The last _get_working_provider call of the polling phase has returned.
Acquired == acq.provider # NoProvider

\* The polling of this iteration is over: every address has had its turn.
CycleDone == pc \in {"report", "idle"} /\ Len(fetch_log) = Len(addresses)

\* The addresses present in the iteration's aggregate.
Reported == {positions[i].address : i \in 1..Len(positions)}

\* The Polling phase of the reporting cycle (fetching, then handing over the
\* aggregate); pc = "idle" is its Idle phase.
Polling == pc \in {"poll", "backoff", "report"}

\* C1: once an endpoint has failed 3 times in a row (no success on it in
\* between), _get_working_provider does not return it unless that very call ran
\* the forced reset, which sets every failure count to 0.
C1_BlockedNotReturned ==
    (Acquired /\ acq.blocked_before) => (acq.reset /\ acq.zeroed_on_return)

\* C1 witness: a call returned a provider by its scan while another provider
\* stood at 3 failures in a row.
C1_Witness ==
    /\ Acquired
    /\ ~acq.reset
    /\ \E e \in DOMAIN streak : e # acq.provider /\ streak[e] >= FailLimit

\* C2: if every endpoint has failure count >= 3 when _get_working_provider is
\* called, it returns an endpoint of the pool and every failure count is 0 on
\* return.
C2_ForcedReset ==
    (Acquired /\ acq.all_failed_on_entry)
        => (acq.provider \in DOMAIN w3_providers /\ acq.zeroed_on_return)

\* C2 witness: a call was made with every endpoint at 3 failures or more, in a
\* pool of at least two.
C2_Witness ==
    Acquired /\ acq.all_failed_on_entry /\ PoolSize(w3_providers) >= 2

\* C3: one get_position_data makes at most pool-size attempts, and returns
\* absent only after exactly pool-size attempts, all failed.
C3_RetryBound ==
    /\ calls <= PoolSize(w3_providers)
    /\ \A i \in 1..Len(fetch_log) : ~fetch_log[i].ok => fetch_log[i].exhausted

\* C3 witness: a fetch returned absent in a pool of at least two, after
\* pool-size attempts.
C3_Witness ==
    /\ PoolSize(w3_providers) >= 2
    /\ pc \in {"poll", "report"} /\ retry = 0
    /\ fetch_log # <<>>
    /\ ~fetch_log[Len(fetch_log)].ok
    /\ calls = PoolSize(w3_providers)

\* Every call made for address number i failed, every call made for the other
\* addresses succeeded.
OnlyFails(i) ==
    /\ ~fetch_log[i].ok
    /\ \A j \in 1..Len(fetch_log) : j # i => fetch_log[j].clean

\* C4: in a cycle where every call for one address fails and the calls for the
\* others succeed, that address's fetch returns absent after exactly pool-size
\* attempts, the address is not in the cycle's aggregate, and every other
\* configured address is.
C4_ScenarioC ==
    CycleDone =>
        \A i \in 1..Len(fetch_log) :
            OnlyFails(i) =>
                /\ fetch_log[i].exhausted
                /\ fetch_log[i].address = addresses[i]
                /\ addresses[i] \notin Reported
                /\ \A j \in 1..Len(addresses) : j # i => addresses[j] \in Reported

\* C4 witness: such a cycle, with two addresses or more and a pool of two or more.
C4_Witness ==
    /\ CycleDone
    /\ Len(addresses) >= 2
    /\ PoolSize(w3_providers) >= 2
    /\ \E i \in 1..Len(fetch_log) : OnlyFails(i)

\* C5 as stated: after a failed attempt on endpoint e, the next
\* _get_working_provider does not return e.  Stated for pools of two endpoints
\* or more: a pool of one has nothing else to return.
C5_NeverSameEndpoint ==
    (Acquired /\ acq.after_failure_of # NoProvider /\ PoolSize(w3_providers) >= 2)
        => acq.provider # acq.after_failure_of

\* C5 amended: after a failed attempt on the endpoint e the cursor pointed at,
\* the next _get_working_provider does not return e if some other endpoint has
\* failure count < 3 and answers the liveness probe.
C5_NextEndpointWhenOthersReady ==
    (Acquired /\ acq.after_failure_of # NoProvider /\ acq.after_scan /\ acq.other_ready)
        => acq.provider # acq.after_failure_of

\* C5 witness: a call right after a failed attempt, with another endpoint ready.
C5_Witness ==
    /\ Acquired
    /\ acq.after_failure_of # NoProvider
    /\ acq.after_scan
    /\ acq.other_ready
    /\ acq.provider # acq.after_failure_of

\* C6: _get_working_provider returns an endpoint of the pool whatever the
\* failure counts, the cursor and the probe outcomes (probes that raise
\* included); it examines at most 2 x pool-size candidates, and runs the forced
\* reset exactly when all of them were passed over.  A polling step is therefore
\* always possible.
C6_AcquireTerminates ==
    /\ pc = "poll" => ENABLED Attempt
    /\ Acquired =>
        /\ acq.provider \in DOMAIN w3_providers
        /\ acq.examined >= 1
        /\ acq.examined <= ScanFactor * PoolSize(w3_providers)
        /\ acq.reset => acq.examined = ScanFactor * PoolSize(w3_providers)

\* C6 witness: a call in which probes raised and every candidate was passed
\* over ended in the forced reset.
C6_Witness ==
    /\ Acquired
    /\ acq.probe_raised
    /\ acq.reset
    /\ PoolSize(w3_providers) >= 2

\* An exception that is no TelegramError left send_or_update_message in this
\* iteration.
ErrorRaised ==
    sink_calls # <<>> /\ sink_calls[Len(sink_calls)].result = "raise"

\* C7: an unexpected error in an iteration does not end the loop: the iteration
\* is abandoned in the Idle sleep, the sleep can end, and what follows it is the
\* start of the next Polling phase; the loop ends only on a stop signal.
C7_ErrorKeepsLooping ==
    /\ [](pc = "stopped" => stop_signal)
    /\ [](ErrorRaised => pc = "idle")
    /\ [](pc = "idle" => ENABLED Sleep)
    /\ [][pc = "idle" => (pc' \in {"poll", "report"} \/ stop_signal')]_vars

\* C7 witness: the error was raised by the re-send that follows "not found".
C7_Witness ==
    /\ ErrorRaised
    /\ Len(sink_calls) = 2
    /\ pc = "idle"
    /\ ~stop_signal

\* Each configured address has had exactly one fetch in this iteration.
AllAttemptedOnce ==
    /\ Len(fetch_log) = Len(addresses)
    /\ \A i \in 1..Len(fetch_log) : fetch_log[i].address = addresses[i]

\* C8: every Polling phase reaches Idle, by when each configured address has
\* been attempted exactly once, and every Idle phase is followed by a new Polling
\* phase, unless a stop signal arrives.
C8_PollingIdleCycle ==
    /\ [](pc = "idle" => AllAttemptedOnce)
    /\ (Polling ~> (pc = "idle" \/ pc = "stopped"))
    /\ (pc = "idle" ~> (Polling \/ pc = "stopped"))

\* C8 witness: Idle reached after a cycle with a successful and an exhausted fetch.
C8_Witness ==
    /\ pc = "idle"
    /\ AllAttemptedOnce
    /\ \E i, j \in 1..Len(fetch_log) : fetch_log[i].ok /\ ~fetch_log[j].ok

\* Call number i of this iteration was an update answered "message not found".
NotFoundAt(i) ==
    sink_calls[i].op = "update" /\ sink_calls[i].result = "not_found"

\* C9: when an update is answered "message not found", the same text is sent as
\* a new message in the same iteration, and if that send succeeds its handle is
\* the one remembered; the remembered handle is what the next iteration's update
\* addresses.
C9_ResendOnNotFound ==
    /\ [](\A i \in 1..Len(sink_calls) :
            NotFoundAt(i) =>
                /\ i < Len(sink_calls)
                /\ sink_calls[i + 1].op = "send"
                /\ sink_calls[i + 1].text = sink_calls[i].text
                /\ sink_calls[i + 1].result = "ok" =>
                      /\ message_id = sink_calls[i + 1].handle
                      /\ message_id # sink_calls[i].handle)
    /\ [][pc # "report" => message_id' = message_id]_vars
    /\ [][(pc = "report" /\ sink_calls' # <<>> /\ message_id # None) =>
             /\ sink_calls'[1].op = "update"
             /\ sink_calls'[1].handle = message_id]_vars

\* C9 witness: "not found", then a successful re-send whose handle is remembered.
C9_Witness ==
    /\ Len(sink_calls) = 2
    /\ NotFoundAt(1)
    /\ sink_calls[2].result = "ok"
    /\ message_id = sink_calls[2].handle
    /\ message_id # handle_before

\* C10: the remembered handle changes only with a successful send or an update
\* answered "not found"; an update answered "unchanged" or with another error
\* keeps the handle, makes no further call and goes on to Idle; with a handle
\* remembered the iteration's first call is an update of it, and a send is made
\* only with no handle remembered or right after "not found".
C10_HandleFrame ==
    [][ /\ message_id' # message_id =>
             /\ pc = "report"
             /\ \E i \in 1..Len(sink_calls') :
                    \/ sink_calls'[i].op = "send" /\ sink_calls'[i].result = "ok"
                    \/ sink_calls'[i].op = "update" /\ sink_calls'[i].result = "not_found"
        /\ (pc = "report" /\ sink_calls' # <<>>) =>
             /\ sink_calls'[1].op = (IF message_id = None THEN "send" ELSE "update")
             /\ message_id # None => sink_calls'[1].handle = message_id
             /\ sink_calls'[1].result \in {"unchanged", "error"} =>
                    /\ message_id' = message_id
                    /\ Len(sink_calls') = 1
                    /\ pc' = "idle"
             /\ \A i \in 2..Len(sink_calls') :
                    sink_calls'[i].op = "send" =>
                        /\ sink_calls'[i - 1].op = "update"
                        /\ sink_calls'[i - 1].result = "not_found"
      ]_vars

\* C10 witness: an update answered "unchanged" left the handle and the iteration
\* went on to Idle after that single call.
C10_Witness ==
    /\ pc = "idle"
    /\ Len(sink_calls) = 1
    /\ sink_calls[1].op = "update"
    /\ sink_calls[1].result = "unchanged"
    /\ handle_before # None
    /\ message_id = handle_before

\* C11: in an iteration whose aggregate is empty (every address failed, or no
\* address is configured) no call to the Telegram bot is made; the iteration
\* still goes to the interval sleep, the sleep can end, and the step after it
\* starts the next polling.
C11_EmptySkipsSink ==
    /\ []((pc \in {"report", "idle"} /\ positions = <<>>) => sink_calls = <<>>)
    /\ []((pc = "idle" /\ positions = <<>>) => ENABLED Sleep)
    /\ [][(pc = "report" /\ positions = <<>>) =>
             /\ sink_calls' = <<>>
             /\ message_id' = message_id
             /\ (pc' = "idle" \/ stop_signal')]_vars
    /\ [][(pc = "idle" /\ positions = <<>>) =>
             (pc' \in {"poll", "report"} \/ stop_signal')]_vars

\* C11 witness: the sleep of an iteration in which both addresses failed, after
\* an earlier iteration had sent a message.
C11_Witness ==
    /\ pc = "idle"
    /\ positions = <<>>
    /\ Len(addresses) >= 2
    /\ Len(fetch_log) = Len(addresses)
    /\ message_id # None
    /\ sink_calls = <<>>

\* _calculate_liquidation_price has returned.
Calculated == risk_out # <<>>

\* C12: _calculate_liquidation_price returns None, without any error raised
\* inside it, whenever collateral, debt or threshold is 0, whatever the health
\* factor (0 included), and returns the metrics in every other case.
C12_DegenerateAbsent ==
    Calculated =>
        IF \/ risk_in.collateral_usd = 0
           \/ risk_in.debt_usd = 0
           \/ risk_in.liquidation_threshold = 0
        THEN risk_out[1].metrics = Absent /\ ~risk_out[1].caught
        ELSE risk_out[1].metrics # Absent /\ ~risk_out[1].caught

\* C12 witness: only the debt is 0, and the health factor is 0 too.
C12_Witness ==
    /\ Calculated
    /\ risk_in.collateral_usd > 0
    /\ risk_in.debt_usd = 0
    /\ risk_in.liquidation_threshold > 0
    /\ risk_in.health_factor.num = 0
    /\ risk_out[1].metrics = Absent

\* C13: for collateral, debt and threshold all non-zero and HF = p/q, the
\* metrics hold ratio = 1/HF and drop = (1 - 1/HF) * 100 when HF > 0 (0 for
\* HF = 1, 37.5 for HF = 1.6, negative exactly when HF < 1), ratio = 0 and
\* drop = 100 when HF <= 0, and current_price_normalized = 1 always.
C13_ClosedForm ==
    (Calculated /\ risk_out[1].metrics # Absent) =>
        LET p == risk_in.health_factor.num
            q == risk_in.health_factor.den
            ratio == risk_out[1].metrics[1].liquidation_price_ratio
            drop == risk_out[1].metrics[1].price_drop_to_liquidation_pct
            current == risk_out[1].metrics[1].current_price_normalized
        IN /\ ratio.den > 0 /\ drop.den > 0
           /\ current.num = current.den
           /\ p > 0 =>
                /\ ratio.num * p = ratio.den * q
                /\ drop.num * p = drop.den * (p - q) * 100
                /\ drop.num < 0 <=> p < q
                /\ p = q => drop.num = 0
                /\ (5 * p = 8 * q) => (2 * drop.num = 75 * drop.den)
           /\ p <= 0 =>
                /\ ratio.num = 0
                /\ drop.num = 100 * drop.den

\* C13 witness: HF = 1.6 gave a drop of 37.5.
C13_Witness ==
    /\ Calculated
    /\ risk_out[1].metrics # Absent
    /\ risk_in.health_factor = [num |-> 8, den |-> 5]
    /\ risk_out[1].metrics[1].price_drop_to_liquidation_pct = [num |-> 75, den |-> 2]

\* The addresses of the fetches of a log that returned a snapshot, in log order.
RECURSIVE SucceededIn(_)
SucceededIn(log) ==
    IF log = <<>>
    THEN <<>>
    ELSE (IF Head(log).ok THEN <<Head(log).address>> ELSE <<>>)
             \o SucceededIn(Tail(log))

\* C14: the aggregate lists exactly the addresses whose fetch of this iteration
\* returned a snapshot, each once and in the order of the configured list
\* (the fetches are made in that order, one per address), with nothing left
\* from an earlier iteration; the text given to the bot is made from it.
C14_AggregateInOrder ==
    /\ [i \in 1..Len(positions) |-> positions[i].address] = SucceededIn(fetch_log)
    /\ \A i \in 1..Len(fetch_log) : fetch_log[i].address = addresses[i]
    /\ \A i, j \in 1..Len(positions) :
           i < j => positions[i].address # positions[j].address
    /\ pc = "report" => Len(fetch_log) = Len(addresses)
    /\ \A i \in 1..Len(sink_calls) : sink_calls[i].text = SucceededIn(fetch_log)

\* C14 witness: in an iteration after one that sent a message, the first address
\* failed and the second succeeded; the aggregate handed over holds the second only.
C14_Witness ==
    /\ pc = "report"
    /\ message_id # None
    /\ Len(addresses) = 2
    /\ ~fetch_log[1].ok
    /\ fetch_log[2].ok
    /\ Len(positions) = 1
    /\ positions[1].address = addresses[2]

\* C15: if some endpoint has failure count < 3 and answers its liveness probe,
\* _get_working_provider returns the first such endpoint in cyclic order from
\* the cursor, leaves the cursor on it and changes no failure count; otherwise
\* it sets every failure count to 0, returns the provider at index 0 and leaves
\* the cursor at the value it had on entry.
C15_Selection ==
    Acquired =>
        IF acq.first_ready # NoProvider
        THEN /\ acq.provider = acq.first_ready
             /\ acq.index = acq.provider
             /\ acq.kept_counts
             /\ ~acq.reset
        ELSE /\ acq.reset
             /\ acq.zeroed_on_return
             /\ acq.provider = 0
             /\ acq.index = acq.from

\* C15 witness: no endpoint was ready, and the cursor, which was not at index
\* 0 on entry, is where it was while index 0 was returned.
C15_Witness ==
    /\ Acquired
    /\ acq.first_ready = NoProvider
    /\ acq.from # 0
    /\ acq.index = acq.from
    /\ acq.provider = 0

\* A get_position_data of this iteration has just returned (no later attempt yet).
FetchEnded == pc \in {"poll", "report"} /\ retry = 0 /\ fetch_log # <<>>

\* The log entry of the last get_position_data that returned.
LastFetch == fetch_log[Len(fetch_log)]

\* C16: in a get_position_data that started with every failure count < 3 and
\* in which every liveness probe answered, each attempt after a failed one uses
\* the next endpoint in rotation order (so another one, in a pool of two or
\* more), and when the budget is exhausted every endpoint has been used exactly
\* once and every failure count is one more than at the start.  A failed call
\* never leaves get_position_data as an exception: the loop reaches its sleep
\* only with every fetch of the iteration returned, an exhausted one as absent.
C16_FailoverInRotation ==
    /\ run.clear =>
         LET n == PoolSize(w3_providers)
             k == Len(run.tried)
         IN /\ k = calls
            /\ \A i \in 1..(k - 1) :
                  /\ run.tried[i + 1] = (run.tried[i] + 1) % n
                  /\ n >= 2 => run.tried[i + 1] # run.tried[i]
            /\ (FetchEnded /\ ~LastFetch.ok) =>
                  /\ k = n
                  /\ \A e \in DOMAIN w3_providers :
                        /\ Cardinality({i \in 1..k : run.tried[i] = e}) = 1
                        /\ w3_providers[e].failed_count = run.start[e] + 1
    /\ (FetchEnded /\ prev_failed.provider # NoProvider) => ~LastFetch.ok
    /\ pc = "idle" => Len(fetch_log) = Len(addresses)

\* C16 witness: such a fetch, started with the cursor away from index 0 and
\* with a failure already counted, has exhausted a pool of two or more.
C16_Witness ==
    /\ run.clear
    /\ FetchEnded
    /\ ~LastFetch.ok
    /\ PoolSize(w3_providers) >= 2
    /\ run.tried[1] # 0
    /\ \E e \in DOMAIN w3_providers : run.start[e] > 0

\* C17: get_position_data sleeps the backoff delay after every failed attempt
\* but the last of its budget, and not after a successful one: a sleep follows
\* a failed attempt with attempts left, a fetch that succeeds after k failed
\* attempts has slept k times, and an exhausted fetch pool-size - 1 times.
C17_BackoffWaits ==
    LET n == PoolSize(w3_providers) IN
    /\ pc = "backoff" =>
         /\ prev_failed.provider # NoProvider
         /\ calls < n
         /\ waits = calls - 1
    /\ (pc = "poll" /\ retry > 0) =>
         /\ prev_failed.provider # NoProvider
         /\ waits = calls
    /\ FetchEnded =>
         /\ waits = calls - 1
         /\ ~LastFetch.ok => (calls = n /\ waits = n - 1)

\* C17 witness: a fetch has succeeded after a failed attempt and one sleep.
C17_Witness ==
    /\ FetchEnded
    /\ LastFetch.ok
    /\ calls >= 2
    /\ waits = calls - 1

\* This step is an attempt of get_position_data whose call succeeded.
SucceedsNow ==
    /\ pc = "poll"
    /\ ~stop_signal'
    /\ Len(fetch_log') = Len(fetch_log) + 1
    /\ fetch_log'[Len(fetch_log')].ok

\* C18: a successful attempt sets the failure count of the provider that served
\* it to 0 and leaves the other counts and the cursor as _get_working_provider
\* returned them (the counts as before the attempt unless the forced reset ran,
\* the cursor on the provider returned by the scan); the fetch ends at once,
\* with no sleep and no further attempt, and its snapshot names that provider.
\* The cursor moves nowhere but in an attempt, and every _get_working_provider
\* starts its scan at the cursor, so the next one starts where this one ended.
C18_SuccessFrame ==
    /\ [][SucceedsNow =>
             LET p == acq'.provider IN
             /\ w3_providers'[p].failed_count = 0
             /\ \A e \in DOMAIN w3_providers \ {p} :
                   w3_providers'[e].failed_count =
                       IF acq'.reset THEN 0 ELSE w3_providers[e].failed_count
             /\ current_rpc_index' = acq'.index
             /\ ~acq'.reset => current_rpc_index' = p
             /\ pc' # "backoff"
             /\ retry' = 0
             /\ waits' = (IF retry = 0 THEN 0 ELSE waits)
             /\ positions' = Append(positions,
                                    [address |-> addresses[address_i],
                                     rpc_used |-> w3_providers[p].url])
       ]_vars
    /\ [][pc # "poll" => current_rpc_index' = current_rpc_index]_vars
    /\ [][(pc = "poll" /\ ~stop_signal') => acq'.from = current_rpc_index]_vars

\* C18 witness: a fetch has just succeeded on a provider other than the first,
\* found by the scan, while another provider has failures counted.
C18_Witness ==
    /\ FetchEnded
    /\ LastFetch.ok
    /\ Acquired
    /\ ~acq.reset
    /\ acq.provider # 0
    /\ current_rpc_index = acq.provider
    /\ w3_providers[acq.provider].failed_count = 0
    /\ \E e \in DOMAIN w3_providers : w3_providers[e].failed_count > 0

\* C20: in every reachable state the pool is not empty, its providers are the
\* ones _init_web3_providers built, in the same order, the cursor is an index
\* of the pool, and every failure count is between 0 and 3.
C20_PoolInvariant ==
    LET n == PoolSize(w3_providers) IN
    /\ n >= 1
    /\ w3_providers = [e \in 0..(n - 1) |->
                          [InitProviders(n)[e] EXCEPT
                              !.failed_count = w3_providers[e].failed_count]]
    /\ current_rpc_index \in 0..(n - 1)
    /\ \A e \in 0..(n - 1) : w3_providers[e].failed_count \in 0..FailLimit

\* C20 witness: a provider stands at 3 failures with the cursor away from index 0.
C20_Witness ==
    /\ current_rpc_index # 0
    /\ \E e \in DOMAIN w3_providers : w3_providers[e].failed_count = FailLimit

\* This step is made by task t.
StepOf(t) == tasks'[t] # tasks[t]

\* This step is a whole attempt made alone: provider p, found by the scan with
\* a count below the limit, has its count set to 0 (failed = 0) or raised by
\* one (failed = 1) with the cursor left on p or one place past it and no other
\* count touched; or the forced reset ran and index 0 was used, every other
\* count being 0 and the cursor where it was, or one place on.
WholeAttempt(failed) ==
    LET n == PoolSize(w3_providers) IN
    \/ \E p \in DOMAIN w3_providers :
          /\ w3_providers[p].failed_count < FailLimit
          /\ w3_providers'[p].failed_count = failed * (w3_providers[p].failed_count + 1)
          /\ current_rpc_index' = (p + failed) % n
          /\ \A e \in DOMAIN w3_providers \ {p} : w3_providers'[e] = w3_providers[e]
    \/ /\ w3_providers'[0].failed_count = failed
       /\ current_rpc_index' = (current_rpc_index + failed) % n
       /\ \A e \in DOMAIN w3_providers \ {0} : w3_providers'[e].failed_count = 0

\* C19: with the fetches of several addresses running as concurrent tasks that
\* are suspended only in the backoff sleep, no task is ever stopped between
\* its _get_working_provider and the bookkeeping of its call, and each attempt
\* has its whole effect in one step, as if made alone.  No increment or reset
\* is lost (every count is the number of failures in a row, never above 3), no
\* cursor advance is lost, and no task makes more than pool-size attempts per
\* fetch, giving up only after exactly that many.
C19_AtomicAttempts ==
    /\ [](\A t \in DOMAIN tasks :
            /\ tasks[t].pc # "calling"
            /\ tasks[t].retry <= PoolSize(w3_providers) - 1)
    /\ [](\A e \in DOMAIN w3_providers :
            /\ w3_providers[e].failed_count = streak[e]
            /\ w3_providers[e].failed_count <= FailLimit)
    /\ [][\A t \in DOMAIN tasks :
            (StepOf(t) /\ tasks[t].pc # "backoff") =>
                /\ WholeAttempt(IF tasks'[t].last = "ok" THEN 0 ELSE 1)
                /\ tasks'[t].last = "absent" =>
                      tasks[t].retry = PoolSize(w3_providers) - 1
                /\ tasks'[t].last = "failed" => tasks'[t].pc = "backoff"
       ]_vars
    /\ [][\A t \in DOMAIN tasks :
            (StepOf(t) /\ tasks[t].pc = "backoff") =>
                /\ w3_providers' = w3_providers
                /\ current_rpc_index' = current_rpc_index
                /\ tasks'[t].retry = tasks[t].retry + 1
       ]_vars

\* C19 witness: two tasks are in their backoff sleep, each after a failed
\* attempt, and one provider's count holds both failures.
C19_Witness ==
    \E t, u \in DOMAIN tasks :
        /\ t # u
        /\ tasks[t].pc = "backoff" /\ tasks[t].retry = 0
        /\ tasks[u].pc = "backoff" /\ tasks[u].retry = 0
        /\ \E e \in DOMAIN w3_providers :
              /\ w3_providers[e].failed_count = 2
              /\ \A f \in DOMAIN w3_providers \ {e} : w3_providers[f].failed_count = 0

====
